---- MODULE Spec2Model ----
(***************************************************************************)
(* Two programs of the Golang-Concurrency repository, as state machines.   *)
(*                                                                         *)
(*  - the job coordinator (package main of the price calculator): one      *)
(*    goroutine per tax rate runs priceJob.Process(doneChans[idx],         *)
(*    errorChans[idx]); main then selects once per index over the two      *)
(*    unbuffered channels of that index.                                   *)
(*  - the shared-channel fan-in (src/main.go): three greet goroutines and  *)
(*    one slowGreet goroutine send on one unbuffered channel, slowGreet    *)
(*    closes it, main ranges over it.                                      *)
(*                                                                         *)
(* An unbuffered channel is a record [made, closed, sendq]; sendq is the    *)
(* queue of parked senders: a send statement parks the sender with its     *)
(* value, a receive takes the head of the queue and makes that sender      *)
(* runnable again.                                                         *)
(* Returning from main ends the process: no goroutine steps afterwards.    *)
(***************************************************************************)
EXTENDS Integers, Sequences, FiniteSets, TLC

VARIABLES
    \* ---- job coordinator ----
    taxRates,     \* the parameter list (percent), fixed at construction
    mainpc,       \* "launch" | "collect" | "done": main's position
    idx,          \* the index of the loop main is in (0-based)
    doneChans,    \* idx -> the channel doneChans[idx]
    errorChans,   \* idx -> the channel errorChans[idx]
    chanOf,       \* idx -> the index of the channel pair handed to Process
    jobpc,        \* idx -> position of the goroutine running Process
    joberr,       \* idx -> the error of the failed step, or NoError
    steps,        \* idx -> the steps Process has executed, in order
    sends,        \* idx -> the channels Process executed a send on, in order
    overtaken,    \* history: some job executed its send while the job of
                  \* a lower index had not executed its own
    observed,     \* what main's selects received: <<[idx, ch, from, val], ...>>
    printed,      \* what main printed: <<[idx, line], ...>>
    \* ---- shared-channel fan-in ----
    fanpc,        \* "launch" | "range" | "exit": main's position
    launched,     \* number of go statements main has executed
    gpc,          \* producer -> position of its goroutine
    isDone,       \* the shared channel
    nReceived,    \* number of values the range loop received
    gotFrom,      \* the producers whose send the range loop received
    panicked      \* "no" or the fatal error that ended the process

coordVars == <<taxRates, mainpc, idx, doneChans, errorChans, chanOf, jobpc, joberr,
               steps, sends, overtaken, observed, printed>>
fanVars == <<fanpc, launched, gpc, isDone, nReceived, gotFrom, panicked>>
vars == <<coordVars, fanVars>>

----------------------------------------------------------------------------
(* Job coordinator                                                         *)

\* taxRates := []float64{0, 0.07, 0.1, 0.15}, in percent
AllTaxRates == <<0, 7, 10, 15>>

\* the zero value of a channel variable: no channel has been made
NilChan == [made |-> FALSE, closed |-> FALSE, sendq |-> << >>]
NoError == "nil"
ErrorKinds == {"ReadError", "TransformError", "WriteError"}

N == Len(taxRates)
Indices == 0 .. (N - 1)

\* the largest number of parameters the model runs the coordinator with
MaxJobs == 4

\* a parameter list of n rates: the source's list, repeated when n is larger
ParamList(n) == [i \in 1 .. n |-> AllTaxRates[((i - 1) % Len(AllTaxRates)) + 1]]

\* make(chan T): an unbuffered, open channel with no parked sender
MakeChan == [made |-> TRUE, closed |-> FALSE, sendq |-> << >>]

\* ch <- v on an open channel: goroutine g parks on it with its value
ChanSend(ch, g, v) == [ch EXCEPT !.sendq = Append(@, [from |-> g, val |-> v])]

\* a receive can proceed when a sender is parked on a made channel
ChanReady(ch) == ch.made /\ Len(ch.sendq) > 0

\* the parked sender a receive takes, and the channel after the receive
ChanHead(ch) == Head(ch.sendq)
ChanRecv(ch) == [ch EXCEPT !.sendq = Tail(@)]

\* close(ch) on an open channel
ChanClose(ch) == [ch EXCEPT !.closed = TRUE]

\* no goroutine has been started for the index yet
NoChan == -1

InitCoord ==
    /\ \E n \in 0 .. MaxJobs : taxRates = ParamList(n)
    /\ mainpc = "launch"
    /\ idx = 0
    /\ doneChans = [i \in 0 .. (Len(taxRates) - 1) |-> NilChan]
    /\ errorChans = [i \in 0 .. (Len(taxRates) - 1) |-> NilChan]
    /\ chanOf = [i \in 0 .. (Len(taxRates) - 1) |-> NoChan]
    /\ jobpc = [i \in 0 .. (Len(taxRates) - 1) |-> "unborn"]
    /\ joberr = [i \in 0 .. (Len(taxRates) - 1) |-> NoError]
    /\ steps = [i \in 0 .. (Len(taxRates) - 1) |-> << >>]
    /\ sends = [i \in 0 .. (Len(taxRates) - 1) |-> << >>]
    /\ overtaken = FALSE
    /\ observed = << >>
    /\ printed = << >>

\* a launch loop that hands every job the channel pair of index 0
LaunchFirstChans ==
    /\ mainpc = "launch"
    /\ idx < N
    /\ doneChans' = [doneChans EXCEPT ![idx] = MakeChan]
    /\ errorChans' = [errorChans EXCEPT ![idx] = MakeChan]
    /\ chanOf' = [chanOf EXCEPT ![idx] = 0]
    /\ jobpc' = [jobpc EXCEPT ![idx] = "LoadData"]
    /\ idx' = idx + 1
    /\ UNCHANGED fanVars
    /\ UNCHANGED <<taxRates, mainpc, joberr, steps, sends, overtaken, observed, printed>>

\* one iteration of `for idx, taxRate := range taxRates`: make both channels,
\* build the job, start the goroutine running Process with the two channels
\* of its index
Launch ==
    /\ mainpc = "launch"
    /\ idx < N
    /\ doneChans' = [doneChans EXCEPT ![idx] = MakeChan]
    /\ errorChans' = [errorChans EXCEPT ![idx] = MakeChan]
    /\ chanOf' = [chanOf EXCEPT ![idx] = idx]
    /\ jobpc' = [jobpc EXCEPT ![idx] = "LoadData"]
    /\ idx' = idx + 1
    /\ UNCHANGED fanVars
    /\ UNCHANGED <<taxRates, mainpc, joberr, steps, sends, overtaken, observed, printed>>

\* the launch loop is exhausted: main enters `for idx := range taxRates`
LaunchEnd ==
    /\ mainpc = "launch"
    /\ idx = N
    /\ mainpc' = "collect"
    /\ idx' = 0
    /\ UNCHANGED fanVars
    /\ UNCHANGED <<taxRates, chanOf, doneChans, errorChans, jobpc, joberr, steps, sends, overtaken,
                   observed, printed>>

\* a goroutine runs only while main has not returned
Running(i) == i \in Indices /\ mainpc # "done"

\* a step of Process that can fail: on failure the error is kept for the
\* error path, on success Process goes on to the next step
ProcessStep(i, at, next, kind) ==
    /\ Running(i)
    /\ jobpc[i] = at
    /\ steps' = [steps EXCEPT ![i] = Append(@, at)]
    /\ \/ /\ jobpc' = [jobpc EXCEPT ![i] = next]
          /\ joberr' = joberr
       \/ /\ jobpc' = [jobpc EXCEPT ![i] = "sendErr"]
          /\ joberr' = [joberr EXCEPT ![i] = kind]
    /\ UNCHANGED fanVars
    /\ UNCHANGED <<taxRates, chanOf, mainpc, idx, doneChans, errorChans, sends, overtaken,
                   observed, printed>>

\* step 1: read and parse the input record set
LoadData(i) == ProcessStep(i, "LoadData", "Transform", "ReadError")

\* step 2: the transform with the job's parameter
Transform(i) == ProcessStep(i, "Transform", "WriteResult", "TransformError")

\* a write step whose failure is not checked: Process goes on to the
\* success send with the error at hand
WriteResultUnchecked(i) ==
    /\ Running(i)
    /\ jobpc[i] = "WriteResult"
    /\ steps' = [steps EXCEPT ![i] = Append(@, "WriteResult")]
    /\ jobpc' = [jobpc EXCEPT ![i] = "sendDone"]
    /\ \/ joberr' = joberr
       \/ joberr' = [joberr EXCEPT ![i] = "WriteError"]
    /\ UNCHANGED fanVars
    /\ UNCHANGED <<taxRates, chanOf, mainpc, idx, doneChans, errorChans, sends, overtaken,
                   observed, printed>>

\* step 3: write the transformed record set
WriteResult(i) == ProcessStep(i, "WriteResult", "sendDone", "WriteError")

\* history: job i reaches its send before some job of a lower index
FinishedEarly(i) == \E j \in Indices : j < i /\ sends[j] = << >>

\* errorChan <- err: Process parks on its error channel with the error
SendError(i) ==
    /\ Running(i)
    /\ jobpc[i] = "sendErr"
    /\ errorChans' = [errorChans EXCEPT ![chanOf[i]] = ChanSend(@, i, joberr[i])]
    /\ sends' = [sends EXCEPT ![i] = Append(@, "error")]
    /\ overtaken' = (overtaken \/ FinishedEarly(i))
    /\ jobpc' = [jobpc EXCEPT ![i] = "parked"]
    /\ UNCHANGED fanVars
    /\ UNCHANGED <<taxRates, chanOf, mainpc, idx, doneChans, joberr, steps, observed, printed>>

\* doneChan <- true: Process parks on its done channel
SendDone(i) ==
    /\ Running(i)
    /\ jobpc[i] = "sendDone"
    /\ doneChans' = [doneChans EXCEPT ![chanOf[i]] = ChanSend(@, i, TRUE)]
    /\ sends' = [sends EXCEPT ![i] = Append(@, "done")]
    /\ overtaken' = (overtaken \/ FinishedEarly(i))
    /\ jobpc' = [jobpc EXCEPT ![i] = "parked"]
    /\ UNCHANGED fanVars
    /\ UNCHANGED <<taxRates, chanOf, mainpc, idx, errorChans, joberr, steps, observed, printed>>

\* a Process whose error path lacks its return: after the error has been
\* received it goes on to the success send
ProcessFallsThrough(i) ==
    /\ Running(i)
    /\ jobpc[i] = "sent"
    /\ jobpc' = [jobpc EXCEPT ![i] =
                    IF sends[i] = <<"error">> THEN "sendDone" ELSE "returned"]
    /\ UNCHANGED fanVars
    /\ UNCHANGED <<taxRates, chanOf, mainpc, idx, doneChans, errorChans, joberr, steps,
                   sends, overtaken, observed, printed>>

\* a step of Process that never returns (a read, a transform or a write that
\* blocks for ever): Process stays there and sends on neither channel
Hang(i) ==
    /\ Running(i)
    /\ jobpc[i] \in {"LoadData", "Transform", "WriteResult"}
    /\ jobpc' = [jobpc EXCEPT ![i] = "hung"]
    /\ UNCHANGED fanVars
    /\ UNCHANGED <<taxRates, chanOf, mainpc, idx, doneChans, errorChans, joberr, steps,
                   sends, overtaken, observed, printed>>

\* the send has been received: Process returns and its goroutine ends
ProcessReturn(i) ==
    /\ Running(i)
    /\ jobpc[i] = "sent"
    /\ jobpc' = [jobpc EXCEPT ![i] = "returned"]
    /\ UNCHANGED fanVars
    /\ UNCHANGED <<taxRates, chanOf, mainpc, idx, doneChans, errorChans, joberr, steps,
                   sends, overtaken, observed, printed>>

\* the guard inverted: a line is printed only for a nil error
ErrorLinesInverted(i, err) ==
    IF err = NoError THEN <<[idx |-> i, line |-> err]>> ELSE << >>

\* case err := <-errorChans[idx]: if err != nil { Println("ERROR", err) }
ErrorLines(i, err) == IF err # NoError THEN <<[idx |-> i, line |-> err]>> ELSE << >>

\* an error case that receives the error and reports nothing
SelectErrorSilent ==
    /\ mainpc = "collect"
    /\ idx < N
    /\ ChanReady(errorChans[idx])
    /\ observed' = Append(observed,
                          [idx |-> idx, ch |-> "error",
                           from |-> ChanHead(errorChans[idx]).from,
                           val |-> ChanHead(errorChans[idx]).val])
    /\ errorChans' = [errorChans EXCEPT ![idx] = ChanRecv(@)]
    /\ jobpc' = [jobpc EXCEPT ![ChanHead(errorChans[idx]).from] = "sent"]
    /\ idx' = idx + 1
    /\ UNCHANGED fanVars
    /\ UNCHANGED <<taxRates, chanOf, mainpc, doneChans, joberr, steps, sends, overtaken, printed>>

\* a select with no error case: main waits for the done channel only
SelectErrorMissing ==
    /\ FALSE
    /\ UNCHANGED vars

SelectError ==
    /\ mainpc = "collect"
    /\ idx < N
    /\ ChanReady(errorChans[idx])
    /\ observed' = Append(observed,
                          [idx |-> idx, ch |-> "error",
                           from |-> ChanHead(errorChans[idx]).from,
                           val |-> ChanHead(errorChans[idx]).val])
    /\ printed' = printed \o ErrorLines(idx, ChanHead(errorChans[idx]).val)
    /\ errorChans' = [errorChans EXCEPT ![idx] = ChanRecv(@)]
    /\ jobpc' = [jobpc EXCEPT ![ChanHead(errorChans[idx]).from] = "sent"]
    /\ idx' = idx + 1
    /\ UNCHANGED fanVars
    /\ UNCHANGED <<taxRates, chanOf, mainpc, doneChans, joberr, steps, sends, overtaken>>

\* a select whose done case moves on two indices instead of one
SelectDoneSkip ==
    /\ mainpc = "collect"
    /\ idx < N
    /\ ChanReady(doneChans[idx])
    /\ observed' = Append(observed,
                          [idx |-> idx, ch |-> "done",
                           from |-> ChanHead(doneChans[idx]).from,
                           val |-> ChanHead(doneChans[idx]).val])
    /\ printed' = printed \o <<[idx |-> idx, line |-> "Done"]>>
    /\ doneChans' = [doneChans EXCEPT ![idx] = ChanRecv(@)]
    /\ jobpc' = [jobpc EXCEPT ![ChanHead(doneChans[idx]).from] = "sent"]
    /\ idx' = IF idx + 2 <= N THEN idx + 2 ELSE N
    /\ UNCHANGED fanVars
    /\ UNCHANGED <<taxRates, chanOf, mainpc, errorChans, joberr, steps, sends, overtaken>>

\* a select that takes whichever done channel is ready, in completion order
SelectDoneAny ==
    /\ mainpc = "collect"
    /\ idx < N
    /\ \E j \in Indices :
          /\ ChanReady(doneChans[j])
          /\ observed' = Append(observed,
                                [idx |-> idx, ch |-> "done",
                                 from |-> ChanHead(doneChans[j]).from,
                                 val |-> ChanHead(doneChans[j]).val])
          /\ printed' = printed \o <<[idx |-> idx, line |-> "Done"]>>
          /\ doneChans' = [doneChans EXCEPT ![j] = ChanRecv(@)]
          /\ jobpc' = [jobpc EXCEPT ![ChanHead(doneChans[j]).from] = "sent"]
    /\ idx' = idx + 1
    /\ UNCHANGED fanVars
    /\ UNCHANGED <<taxRates, chanOf, mainpc, errorChans, joberr, steps, sends, overtaken>>

\* a select with a default case: when the done channel is not ready main
\* moves on to the next index without an outcome
SelectDoneOrDefault ==
    /\ mainpc = "collect"
    /\ idx < N
    /\ IF ChanReady(doneChans[idx])
         THEN /\ observed' = Append(observed,
                                    [idx |-> idx, ch |-> "done",
                                     from |-> ChanHead(doneChans[idx]).from,
                                     val |-> ChanHead(doneChans[idx]).val])
              /\ printed' = printed \o <<[idx |-> idx, line |-> "Done"]>>
              /\ doneChans' = [doneChans EXCEPT ![idx] = ChanRecv(@)]
              /\ jobpc' = [jobpc EXCEPT ![ChanHead(doneChans[idx]).from] = "sent"]
         ELSE /\ ~ChanReady(errorChans[idx])
              /\ UNCHANGED <<observed, printed, doneChans, jobpc>>
    /\ idx' = idx + 1
    /\ UNCHANGED fanVars
    /\ UNCHANGED <<taxRates, chanOf, mainpc, errorChans, joberr, steps, sends, overtaken>>

\* case <-doneChans[idx]: Println("Done")
DoneLines(i) == <<[idx |-> i, line |-> "Done"]>>

SelectDone ==
    /\ mainpc = "collect"
    /\ idx < N
    /\ ChanReady(doneChans[idx])
    /\ observed' = Append(observed,
                          [idx |-> idx, ch |-> "done",
                           from |-> ChanHead(doneChans[idx]).from,
                           val |-> ChanHead(doneChans[idx]).val])
    /\ printed' = printed \o DoneLines(idx)
    /\ doneChans' = [doneChans EXCEPT ![idx] = ChanRecv(@)]
    /\ jobpc' = [jobpc EXCEPT ![ChanHead(doneChans[idx]).from] = "sent"]
    /\ idx' = idx + 1
    /\ UNCHANGED fanVars
    /\ UNCHANGED <<taxRates, chanOf, mainpc, errorChans, joberr, steps, sends, overtaken>>

\* a main that leaves the collection loop one index overtaken
MainReturnEarly ==
    /\ mainpc = "collect"
    /\ idx >= N - 1
    /\ mainpc' = "done"
    /\ UNCHANGED fanVars
    /\ UNCHANGED <<taxRates, chanOf, idx, doneChans, errorChans, jobpc, joberr, steps,
                   sends, overtaken, observed, printed>>

\* the collection loop is exhausted: main returns and the process ends
MainReturn ==
    /\ mainpc = "collect"
    /\ idx = N
    /\ mainpc' = "done"
    /\ UNCHANGED fanVars
    /\ UNCHANGED <<taxRates, chanOf, idx, doneChans, errorChans, jobpc, joberr, steps, sends, overtaken,
                   observed, printed>>

\* a step of main
MainStep == Launch \/ LaunchEnd \/ SelectError \/ SelectDone \/ MainReturn

\* a step of the goroutine running Process for index i
JobStep(i) ==
    \/ LoadData(i)
    \/ Transform(i)
    \/ WriteResult(i)
    \/ SendError(i)
    \/ SendDone(i)
    \/ ProcessReturn(i)

NextCoord ==
    \/ Launch
    \/ LaunchEnd
    \/ SelectError
    \/ SelectDone
    \/ MainReturn
    \/ \E i \in Indices : LoadData(i)
    \/ \E i \in Indices : Transform(i)
    \/ \E i \in Indices : WriteResult(i)
    \/ \E i \in Indices : SendError(i)
    \/ \E i \in Indices : SendDone(i)
    \/ \E i \in Indices : ProcessReturn(i)

----------------------------------------------------------------------------
(* Shared-channel fan-in                                                   *)

\* the go statements of main, in order: greet, greet, slowGreet, greet
Producers == 1 .. 4
SlowGreeter == 3

InitFan ==
    /\ fanpc = "launch"
    /\ launched = 0
    /\ gpc = [p \in Producers |-> "unborn"]
    /\ isDone = MakeChan
    /\ nReceived = 0
    /\ gotFrom = {}
    /\ panicked = "no"

\* the process is alive: main has not returned and no goroutine has panicked
Alive == fanpc # "exit" /\ panicked = "no"

\* the next `go greet(...)` / `go slowGreet(...)`; after the last one main
\* reaches `for range isDone`
FanLaunch ==
    /\ Alive
    /\ fanpc = "launch"
    /\ launched' = launched + 1
    /\ gpc' = [gpc EXCEPT ![launched + 1] =
                  IF launched + 1 = SlowGreeter THEN "sleep" ELSE "print"]
    /\ fanpc' = IF launched + 1 = Cardinality(Producers) THEN "range" ELSE "launch"
    /\ UNCHANGED coordVars
    /\ UNCHANGED <<isDone, nReceived, gotFrom, panicked>>

\* time.Sleep(2 * time.Second) returns
SlowSleep ==
    /\ Alive
    /\ gpc[SlowGreeter] = "sleep"
    /\ gpc' = [gpc EXCEPT ![SlowGreeter] = "print"]
    /\ UNCHANGED coordVars
    /\ UNCHANGED <<fanpc, launched, isDone, nReceived, gotFrom, panicked>>

\* fmt.Println("Hello!", phrase)
GreetPrint(p) ==
    /\ Alive
    /\ gpc[p] = "print"
    /\ gpc' = [gpc EXCEPT ![p] = "send"]
    /\ UNCHANGED coordVars
    /\ UNCHANGED <<fanpc, launched, isDone, nReceived, gotFrom, panicked>>

\* doneChan <- true: a send on a closed channel panics; otherwise the
\* sender parks until the range loop receives from it
GreetSend(p) ==
    /\ Alive
    /\ gpc[p] = "send"
    /\ IF isDone.closed
         THEN /\ panicked' = "send on closed channel"
              /\ UNCHANGED <<gpc, isDone>>
         ELSE /\ isDone' = ChanSend(isDone, p, TRUE)
              /\ gpc' = [gpc EXCEPT ![p] = "parked"]
              /\ UNCHANGED panicked
    /\ UNCHANGED coordVars
    /\ UNCHANGED <<fanpc, launched, nReceived, gotFrom>>

\* a greet that closes the channel after its send, as slowGreet does
GreetReturnClosing(p) ==
    /\ Alive
    /\ p # SlowGreeter
    /\ gpc[p] = "sent"
    /\ IF isDone.closed
         THEN /\ panicked' = "close of closed channel"
              /\ UNCHANGED <<gpc, isDone>>
         ELSE /\ isDone' = ChanClose(isDone)
              /\ gpc' = [gpc EXCEPT ![p] = "returned"]
              /\ panicked' = IF Len(isDone.sendq) > 0
                               THEN "send on closed channel" ELSE "no"
    /\ UNCHANGED coordVars
    /\ UNCHANGED <<fanpc, launched, nReceived, gotFrom>>

\* greet returns after its send
GreetReturn(p) ==
    /\ Alive
    /\ p # SlowGreeter
    /\ gpc[p] = "sent"
    /\ gpc' = [gpc EXCEPT ![p] = "returned"]
    /\ UNCHANGED coordVars
    /\ UNCHANGED <<fanpc, launched, isDone, nReceived, gotFrom, panicked>>

\* close(doneChan), then slowGreet returns: closing a closed channel
\* panics, and so does every sender parked on the channel being closed
SlowClose ==
    /\ Alive
    /\ gpc[SlowGreeter] = "sent"
    /\ IF isDone.closed
         THEN /\ panicked' = "close of closed channel"
              /\ UNCHANGED <<gpc, isDone>>
         ELSE /\ isDone' = ChanClose(isDone)
              /\ gpc' = [gpc EXCEPT ![SlowGreeter] = "returned"]
              /\ panicked' = IF Len(isDone.sendq) > 0
                               THEN "send on closed channel" ELSE "no"
    /\ UNCHANGED coordVars
    /\ UNCHANGED <<fanpc, launched, nReceived, gotFrom>>

\* one iteration of `for range isDone`: receive from the first parked sender
RangeReceive ==
    /\ Alive
    /\ fanpc = "range"
    /\ ChanReady(isDone)
    /\ isDone' = ChanRecv(isDone)
    /\ gpc' = [gpc EXCEPT ![ChanHead(isDone).from] = "sent"]
    /\ nReceived' = nReceived + 1
    /\ gotFrom' = gotFrom \cup {ChanHead(isDone).from}
    /\ UNCHANGED coordVars
    /\ UNCHANGED <<fanpc, launched, panicked>>

\* the channel is closed and drained: the range loop ends and main returns
RangeEnd ==
    /\ Alive
    /\ fanpc = "range"
    /\ Len(isDone.sendq) = 0
    /\ isDone.closed
    /\ fanpc' = "exit"
    /\ UNCHANGED coordVars
    /\ UNCHANGED <<launched, gpc, isDone, nReceived, gotFrom, panicked>>

NextFan ==
    \/ FanLaunch
    \/ SlowSleep
    \/ SlowClose
    \/ RangeReceive
    \/ RangeEnd
    \/ \E p \in Producers : GreetPrint(p)
    \/ \E p \in Producers : GreetSend(p)
    \/ \E p \in Producers : GreetReturn(p)

----------------------------------------------------------------------------
(* Specifications                                                          *)

\* the job coordinator runs
Init == InitCoord /\ InitFan
Next == NextCoord
Spec == Init /\ [][Next]_vars

\* the shared-channel fan-in runs
FanInit == InitFan /\ InitCoord /\ taxRates = AllTaxRates
FanNext == NextFan
FanSpec == FanInit /\ [][FanNext]_vars

\* a step of main in the fan-in, and a step of producer p
FanMainStep == FanLaunch \/ RangeReceive \/ RangeEnd
ProducerStep(p) ==
    \/ GreetPrint(p)
    \/ GreetSend(p)
    \/ GreetReturn(p)
    \/ (p = SlowGreeter /\ (SlowSleep \/ SlowClose))

\* the shared-channel fan-in under fair scheduling: the Go scheduler runs
\* every runnable goroutine, and the sleep returns
FanFairSpec ==
    /\ FanSpec
    /\ WF_vars(FanMainStep)
    /\ \A p \in Producers : WF_vars(ProducerStep(p))

\* the job coordinator under fair scheduling: the Go scheduler runs every
\* runnable goroutine, so a step that main or a job can take for ever is
\* eventually taken; for a job this says that none of its steps hangs, i.e.
\* that it eventually reaches its send
FairSpec ==
    /\ Spec
    /\ WF_vars(MainStep)
    /\ \A i \in 0 .. (MaxJobs - 1) : WF_vars(JobStep(i))

\* the job coordinator with jobs that may hang in a step: main and every
\* job are scheduled fairly, but a step of Process need not return
HangNext == NextCoord \/ \E i \in Indices : Hang(i)
HangSpec ==
    /\ Init
    /\ [][HangNext]_vars
    /\ WF_vars(MainStep)
    /\ \A i \in 0 .. (MaxJobs - 1) : WF_vars(JobStep(i))

----------------------------------------------------------------------------
(* Properties of the job coordinator                                       *)

\* the collection loop has run out of indices
CollectFinished == mainpc = "done" \/ (mainpc = "collect" /\ idx = N)

\* the send of Process for index i has been executed
HasSent(i) == jobpc[i] \in {"parked", "sent", "returned"}

\* C1: when the collection loop has finished, main has observed exactly N
\* outcomes, the k-th being the outcome of index k-1, received from the job
\* of that index on doneChans[k-1] or on errorChans[k-1].
OneOutcomePerIndex ==
    CollectFinished =>
        /\ Len(observed) = N
        /\ \A i \in Indices :
              /\ observed[i + 1].idx = i
              /\ observed[i + 1].from = i
              /\ observed[i + 1].ch \in {"done", "error"}

OneOutcomePerIndexWitness ==
    /\ CollectFinished
    /\ N = Len(AllTaxRates)
    /\ Len(observed) = N
    /\ \E k \in 1 .. N : observed[k].ch = "done"
    /\ \E k \in 1 .. N : observed[k].ch = "error"

\* C2: Process executes at most one send over its two channels; before its
\* send statement it has sent nothing, and from the send on (parked, received,
\* returned) it has sent exactly once, on one channel only.
ExactlyOneSend ==
    \A i \in Indices :
        /\ Len(sends[i]) <= 1
        /\ HasSent(i) <=> Len(sends[i]) = 1
        /\ jobpc[i] = "returned" =>
               sends[i] \in {<<"done">>, <<"error">>}
        /\ Len(doneChans[i].sendq) + Len(errorChans[i].sendq) <= 1

\* C2, the end of Process: once its send has been received, Process only
\* returns; it sends nothing more and executes no further step.
TerminatesAfterSend ==
    [][\A i \in Indices :
          jobpc[i] \in {"sent", "returned"} =>
              /\ jobpc'[i] \in {"sent", "returned"}
              /\ sends'[i] = sends[i]
              /\ steps'[i] = steps[i]]_vars

\* C2 as one formula: the invariant and the end of Process
SingleSendThenReturn == []ExactlyOneSend /\ TerminatesAfterSend

ExactlyOneSendWitness ==
    /\ N >= 2
    /\ \E i \in Indices : jobpc[i] = "returned" /\ sends[i] = <<"error">>
    /\ \E i \in Indices : jobpc[i] = "returned" /\ sends[i] = <<"done">>

\* C5: outcomes are received and reported in index order: the k-th outcome
\* observed and the k-th line printed are those of index k-1, whichever jobs
\* are already parked in their sends.
IndexOrder ==
    /\ \A k \in 1 .. Len(observed) :
          observed[k].idx = k - 1 /\ observed[k].from = k - 1
    /\ \A k \in 1 .. Len(printed) : printed[k].idx = k - 1
    /\ \A j \in Indices :
          (mainpc = "launch" \/ (mainpc = "collect" /\ idx <= j)) =>
              \A k \in 1 .. Len(observed) : observed[k].from # j

\* some job reached its send before a job of a lower index did, and the
\* collection loop has finished, having observed the indices 0, 1, 2, 3
IndexOrderWitness ==
    /\ CollectFinished
    /\ N = 4
    /\ overtaken
    /\ Len(observed) = N

\* C6: main has returned only if one outcome has been observed for every
\* index 0..N-1.
ReturnsAfterAllOutcomes ==
    mainpc = "done" =>
        /\ Len(observed) = N
        /\ {observed[k].idx : k \in 1 .. Len(observed)} = Indices

ReturnsAfterAllOutcomesWitness ==
    mainpc = "done" /\ N = Len(AllTaxRates) /\ Len(observed) = N

\* the indices whose job failed a step
Failed == {i \in Indices : joberr[i] # NoError}

\* C7: when the collection loop has finished, N lines have been printed in
\* index order, the error of job i for every failed i and "Done" for every
\* other index, and every job has sent exactly once.
FailuresLocal ==
    CollectFinished =>
        /\ Len(printed) = N
        /\ \A i \in Indices :
              /\ printed[i + 1].idx = i
              /\ i \in Failed => printed[i + 1].line = joberr[i]
              /\ i \notin Failed => printed[i + 1].line = "Done"
              /\ Len(sends[i]) = 1

\* N = 4 and F = {2}: success, success, ReadError, success
FailuresLocalWitness ==
    /\ CollectFinished
    /\ N = 4
    /\ Failed = {2}
    /\ printed = <<[idx |-> 0, line |-> "Done"], [idx |-> 1, line |-> "Done"],
                   [idx |-> 2, line |-> "ReadError"], [idx |-> 3, line |-> "Done"]>>

\* the steps Process executes when step number k fails, k in 1..3
StepNames == <<"LoadData", "Transform", "WriteResult">>
StepErrors == <<"ReadError", "TransformError", "WriteError">>

\* C8: once Process has sent, it has sent on the error channel exactly when
\* one of its steps failed, with the steps after the failed one not
\* executed, and on the done channel exactly when all three steps succeeded.
OutcomeByStep ==
    \A i \in Indices :
        /\ joberr[i] # NoError =>
              /\ "done" \notin {sends[i][k] : k \in 1 .. Len(sends[i])}
              /\ jobpc[i] \in {"sendErr", "parked", "sent", "returned"}
              /\ \E k \in 1 .. 3 :
                    joberr[i] = StepErrors[k] /\ steps[i] = SubSeq(StepNames, 1, k)
        /\ HasSent(i) =>
              /\ sends[i] = <<"error">> <=> joberr[i] # NoError
              /\ sends[i] = <<"done">> <=>
                     (joberr[i] = NoError /\ steps[i] = StepNames)
              /\ sends[i] \in {<<"error">>, <<"done">>}

OutcomeByStepWitness ==
    /\ N = Len(AllTaxRates)
    /\ \A i \in Indices : jobpc[i] = "returned"
    /\ joberr = [i \in Indices |->
                    IF i = 0 THEN NoError ELSE StepErrors[i]]

\* C9: every error main received on errorChans[idx] has its line printed
\* for that index: no received error is dropped without a report.
NoErrorDropped ==
    \A k \in 1 .. Len(observed) :
        observed[k].ch = "error" =>
            /\ observed[k].val \in ErrorKinds
            /\ \E m \in 1 .. Len(printed) :
                  printed[m] = [idx |-> observed[k].idx, line |-> observed[k].val]

NoErrorDroppedWitness ==
    /\ CollectFinished
    /\ N >= 2
    /\ \A k \in 1 .. Len(observed) : observed[k].ch = "error"

\* the select of index i has fired
Collected(i) == \E k \in 1 .. Len(observed) : observed[k].idx = i

\* C10: under fair scheduling, where every job reaches its single send, the
\* select of every index eventually fires and main eventually returns: the
\* coordinator never stays blocked.
CoordinatorTerminates ==
    <>(mainpc = "done" /\ \A i \in Indices : Collected(i))

CoordinatorTerminatesWitness ==
    /\ mainpc = "done"
    /\ N = Len(AllTaxRates)
    /\ \A i \in Indices : Collected(i) /\ HasSent(i)

----------------------------------------------------------------------------
(* Properties of the rendezvous between the jobs and main                  *)

\* main has collected the outcome of every index below j
CollectedBelow(j) == mainpc = "done" \/ (mainpc = "collect" /\ idx >= j)

\* the signal of job j is still on the channel it was sent on
SignalKept(j) ==
    \/ /\ sends[j] = <<"done">>
       /\ doneChans[j].sendq = <<[from |-> j, val |-> TRUE]>>
       /\ errorChans[j].sendq = << >>
    \/ /\ sends[j] = <<"error">>
       /\ errorChans[j].sendq = <<[from |-> j, val |-> joberr[j]]>>
       /\ doneChans[j].sendq = << >>

\* C11, the state part: a job whose send has completed has been collected
\* (so every lower index has been too), a job parked in its send has not
\* been collected and its signal is kept on its channel, and the sends have
\* completed for exactly the indices below main's.
SendsInTurn ==
    \A j \in Indices :
        /\ jobpc[j] \in {"sent", "returned"} =>
              CollectedBelow(j + 1) /\ Collected(j)
        /\ jobpc[j] = "parked" =>
              ~Collected(j) /\ ~CollectedBelow(j + 1) /\ SignalKept(j)
        /\ \A i \in Indices :
              (i < j /\ jobpc[j] \in {"sent", "returned"}) =>
                  jobpc[i] \in {"sent", "returned"}

\* C11, the step part: the send of job j completes only in the step in which
\* main, waiting for index j, receives it.
SendCompletesAtWait ==
    [][\A j \in Indices :
          (jobpc[j] = "parked" /\ jobpc'[j] # "parked") =>
              /\ mainpc = "collect" /\ idx = j /\ idx' = j + 1
              /\ jobpc'[j] = "sent"
              /\ Len(observed') = Len(observed) + 1
              /\ observed'[Len(observed')].from = j]_vars

\* C11 as amended: the sends of the jobs complete in index order, each at
\* main's wait for its index, and no signal is lost while its job waits.
RendezvousInTurn == []SendsInTurn /\ SendCompletesAtWait

\* jobs 2 and 3 are parked in their sends while main, having collected
\* indices 0 and 1, waits for index 2
RendezvousInTurnWitness ==
    /\ N = 4
    /\ mainpc = "collect" /\ idx = 2
    /\ jobpc[0] \in {"sent", "returned"} /\ jobpc[1] \in {"sent", "returned"}
    /\ jobpc[2] = "parked" /\ jobpc[3] = "parked"
    /\ SignalKept(2) /\ SignalKept(3)

\* C11 as stated: as above, and the job goroutines also terminate (return
\* from Process) in index order.
FinishInIndexOrder ==
    /\ SendsInTurn
    /\ \A i, j \in Indices :
          (i < j /\ jobpc[j] = "returned") => jobpc[i] = "returned"

\* job k hangs: it will never send on either of its channels
Hung(k) == jobpc[k] = "hung"

\* C12, the state part: while job k hangs main has not returned and has not
\* gone past index k, no outcome of an index above k has been observed, and
\* no job above k has had its send completed.
HungBlocks ==
    \A k \in Indices :
        Hung(k) =>
            /\ mainpc # "done"
            /\ mainpc = "collect" => idx <= k
            /\ \A j \in Indices :
                  j >= k => (~Collected(j) /\ jobpc[j] \notin {"sent", "returned"})

\* main waits at the least index whose job hangs, with the outcome of every
\* lower index observed and every job above it parked in its send or hung
StuckAtHung ==
    \E k \in Indices :
        /\ Hung(k)
        /\ mainpc = "collect" /\ idx = k
        /\ \A i \in Indices : i < k => Collected(i)
        /\ \A j \in Indices : j > k => jobpc[j] \in {"parked", "hung"}

\* C12: if a job hangs, main never returns and never observes an index at
\* or above it, and the run ends for ever with main waiting at the least
\* hung index k, the indices below k observed and the jobs above k blocked.
HangStallsCoordinator ==
    /\ []HungBlocks
    /\ <>[]((\E k \in Indices : Hung(k)) => StuckAtHung)

\* job 1 hangs: index 0 has been observed, main waits at index 1 and jobs 2
\* and 3 are parked in their sends
HangStallsCoordinatorWitness ==
    /\ N = 4
    /\ Hung(1)
    /\ mainpc = "collect" /\ idx = 1
    /\ Collected(0)
    /\ jobpc[2] = "parked" /\ jobpc[3] = "parked"

\* the outcome of job j has been delivered to main
Delivered(j) == \E k \in 1 .. Len(observed) : observed[k].from = j

\* job i has been started and has not reached its send
StillRunning(i) ==
    jobpc[i] \in {"LoadData", "Transform", "WriteResult", "sendErr", "sendDone"}

\* head-of-line blocking: main waits for index i, whose job is still
\* running, while job j > i is parked in its send
HeadOfLine(i, j) ==
    /\ mainpc = "collect" /\ idx = i
    /\ i < j
    /\ StillRunning(i)
    /\ jobpc[j] = "parked"

\* C13, the state part: in a head-of-line state main's select cannot fire
\* (neither channel of index i is ready) and the outcome of job j, kept on
\* its channel, has not been observed.
HeadOfLineBlocks ==
    \A i, j \in Indices :
        HeadOfLine(i, j) =>
            /\ ~ChanReady(doneChans[i]) /\ ~ChanReady(errorChans[i])
            /\ ~ENABLED MainStep
            /\ ~Delivered(j) /\ SignalKept(j)

\* C13, the step part: the outcome of job j is delivered only in the step
\* main takes at index j.
DeliveredAtTurn ==
    [][\A j \in Indices :
          (~Delivered(j) /\ Delivered(j)') =>
              (mainpc = "collect" /\ idx = j /\ idx' = j + 1)]_vars

\* C13: whenever main is blocked at the head of the line, the finished
\* job's outcome stays unobserved until the loop reaches its index.
HeadOfLineBlocking == []HeadOfLineBlocks /\ DeliveredAtTurn

\* main waits for index 0, whose job has not finished its first step, while
\* jobs 1, 2 and 3 have all finished and are parked in their sends
HeadOfLineBlockingWitness ==
    /\ N = 4
    /\ jobpc[0] = "LoadData"
    /\ \A j \in 1 .. 3 : HeadOfLine(0, j) /\ ~Delivered(j)

\* the senders parked on a channel
Senders(ch) == {ch.sendq[k].from : k \in 1 .. Len(ch.sendq)}

\* C14, the state part: a started job holds the channel pair of its own
\* index, only job i is ever parked on doneChans[i] or errorChans[i], and
\* every outcome main observed at an index came from the job of that index.
OwnChannels ==
    /\ \A i \in Indices :
          /\ jobpc[i] # "unborn" => chanOf[i] = i
          /\ Senders(doneChans[i]) \subseteq {i}
          /\ Senders(errorChans[i]) \subseteq {i}
    /\ \A k \in 1 .. Len(observed) : observed[k].from = observed[k].idx

\* what belongs to job j: its channels, its position, error, steps and sends
JobState(j) ==
    <<doneChans[j], errorChans[j], chanOf[j], jobpc[j], joberr[j], steps[j],
      sends[j]>>

\* C14, a step of job i: it changes nothing of any other job and nothing
\* main has observed or printed, and it sends on its own channels only.
JobFrame ==
    [][\A i \in Indices :
          JobStep(i) =>
              /\ \A j \in Indices : j # i => JobState(j)' = JobState(j)
              /\ observed' = observed /\ printed' = printed
              /\ mainpc' = mainpc /\ idx' = idx]_vars

\* C14, a wait of main for index idx: it receives from doneChans[idx] or
\* errorChans[idx] only and leaves the channels of every other index alone.
WaitFrame ==
    [][(mainpc = "collect" /\ idx' # idx) =>
          \A j \in Indices :
              j # idx => (doneChans'[j] = doneChans[j]
                          /\ errorChans'[j] = errorChans[j]
                          /\ jobpc'[j] = jobpc[j])]_vars

\* C14, the parameter list is never modified.
ParamsFixed == [][taxRates' = taxRates]_vars

\* C14: channel ownership is exclusive.
ExclusiveOwnership == []OwnChannels /\ JobFrame /\ WaitFrame /\ ParamsFixed

\* every job has sent on a channel of its own index, jobs 2 and 3 are still
\* parked on theirs while main has received from 0 and 1
ExclusiveOwnershipWitness ==
    /\ N = 4
    /\ mainpc = "collect" /\ idx = 2
    /\ \A i \in Indices : chanOf[i] = i /\ Len(sends[i]) = 1
    /\ Senders(doneChans[2]) \cup Senders(errorChans[2]) = {2}
    /\ Senders(doneChans[3]) \cup Senders(errorChans[3]) = {3}
    /\ Len(observed) = 2

\* C17 as amended: when the collection loop has finished and when main has
\* returned, every job has had its send received (none is before its send
\* or parked in it) and no signal is left on a channel; a job whose send
\* was received may still have its return to execute.
NoJobLeftBlocked ==
    CollectFinished =>
        \A i \in Indices :
            /\ jobpc[i] \in {"sent", "returned"}
            /\ Len(sends[i]) = 1
            /\ Delivered(i)
            /\ doneChans[i].sendq = << >> /\ errorChans[i].sendq = << >>

\* main has returned while the goroutine of the last job, its send
\* received, has not executed its return
NoJobLeftBlockedWitness ==
    /\ mainpc = "done"
    /\ N = 4
    /\ \A i \in 0 .. 2 : jobpc[i] = "returned"
    /\ jobpc[3] = "sent"

\* C17 as stated: when the collection loop has finished, every job
\* goroutine has completed its send and terminated.
AllJobsTerminated ==
    CollectFinished => \A i \in Indices : jobpc[i] = "returned"

----------------------------------------------------------------------------
(* Properties of the shared-channel fan-in                                 *)

\* C3: no producer sends, or is parked in a send, on the shared channel
\* once it has been closed: the process never dies of a send on a closed
\* channel.
NoSendOnClosed ==
    isDone.closed =>
        /\ panicked = "no"
        /\ \A p \in Producers : gpc[p] # "parked"

\* C4: the shared channel is closed only after the send of each of the four
\* producers has been received, and main leaves the range loop only after
\* receiving all 4 signals.
ClosedAfterAllSent ==
    /\ isDone.closed => gotFrom = Producers
    /\ fanpc = "exit" => nReceived = Cardinality(Producers)

\* C15, the state part: the channel is never closed twice; when it is
\* closed, slowGreet's send has been received and slowGreet has closed it and
\* returned; main has left the range loop only with slowGreet's signal
\* received.
ClosedBySlowGreet ==
    /\ panicked # "close of closed channel"
    /\ isDone.closed =>
          (SlowGreeter \in gotFrom /\ gpc[SlowGreeter] = "returned")
    /\ fanpc = "exit" => (isDone.closed /\ SlowGreeter \in gotFrom)

\* C15, the step part: the channel goes from open to closed only in the
\* step in which slowGreet, its send received, executes close; once closed
\* it stays closed and no step closes it again.
ClosedOnceStep ==
    [][/\ (~isDone.closed /\ isDone'.closed) =>
              (gpc[SlowGreeter] = "sent" /\ gpc'[SlowGreeter] = "returned")
       /\ isDone.closed =>
              (isDone'.closed /\ gpc'[SlowGreeter] = "returned")]_vars

\* C15: the shared channel is closed at most once, by slowGreet, after its
\* own send has been received.
ClosedAtMostOnce == []ClosedBySlowGreet /\ ClosedOnceStep

\* main has left the range loop; slowGreet has closed the channel after its
\* signal was received
ClosedAtMostOnceWitness ==
    /\ fanpc = "exit"
    /\ isDone.closed
    /\ gpc[SlowGreeter] = "returned"
    /\ SlowGreeter \in gotFrom

\* C16: under fair scheduling the range loop of main eventually ends, with
\* between 1 and 4 signals received: main never waits for ever.
RangeLoopEnds ==
    <>(fanpc = "exit" /\ nReceived \in 1 .. Cardinality(Producers))

====
